---- MODULE Spec2Model ----
(***************************************************************************)
(* comstar: generate / validate / sync / push of a directory against a     *)
(* manifest (comstar.json).  The four commands of main.rs are modelled as  *)
(* a state machine over the local directory, the local and the remote      *)
(* manifest, the object store and the fan-out of tasks each pipeline       *)
(* spawns behind a semaphore.                                              *)
(*                                                                         *)
(* A file's content is represented by its digest (a number >= 1); 0 stands *)
(* for "no such file".  A path is a sequence of components.                *)
(***************************************************************************)
EXTENDS Integers, Sequences, FiniteSets, TLC

\* ------------------------------------------------------------------ bounds
\* Semaphore::new(10): the width of every pipeline.
W == 10
\* Contents (digests) a local file may have: 1..MaxDigest.
MaxDigest == 2
\* Invocations of the program in one behaviour.
MaxRuns == 2
\* Files of the large directory used to fill the semaphore.
MaxItems == 11

\* ------------------------------------------------------------------ paths
COMSTAR == <<"comstar.json">>

\* The small tree: a file at the root and one with the same name in a directory.
SmallPaths == << <<"a">>, <<"d", "a">> >>

\* The large tree: MaxItems files at the root.
BigPaths == [k \in 1..MaxItems |-> <<"f" \o ToString(k)>>]

Range(s) == {s[k] : k \in 1..Len(s)}

\* Path::file_name / RelativePath::file_name: the last component.
file_name(p) == p[Len(p)]

\* RelativePath::to_logical_path(dir) and Path::strip_prefix(dir): the model keeps
\* every local path relative to dir, so the absolute path is <<"DIR">> \o p.
to_logical_path(p) == <<"DIR">> \o p

strip_prefix(abs) == SubSeq(abs, 2, Len(abs))

\* RelativePath::join: the bucket prefix (<<>> when none is given) before the path.
join(prefix, p) == prefix \o p

\* ------------------------------------------------------------------ manifests
\* Option<Manifest>: present is FALSE for None; entries is a Vec<ManifestEntry>,
\* an entry a record [path, sha512] (its source URL is base_url joined with path).
NoManifest == [present |-> FALSE, entries |-> <<>>, malformed |-> FALSE]

Some(es) == [present |-> TRUE, entries |-> es, malformed |-> FALSE]

\* A comstar.json that is there and does not parse.
Malformed == [present |-> FALSE, entries |-> <<>>, malformed |-> TRUE]

Entry(p, d) == [path |-> p, sha512 |-> d]

PathsOf(es) == {es[k].path : k \in 1..Len(es)}

\* HashMap<&RelativePath, _>::get on the map collected from a manifest's entries:
\* the digest recorded for p (0 when the map has no key p).
ShaOf(es, p) ==
  IF p \in PathsOf(es)
  THEN (CHOOSE e \in Range(es) : e.path = p).sha512
  ELSE 0

\* The manifests over an ordered universe of paths, entries in that order, each
\* path absent or recorded with a digest of ds.
RECURSIVE ManifestsOver(_, _)
ManifestsOver(ps, ds) ==
  IF ps = <<>> THEN {<<>>}
  ELSE LET rest == ManifestsOver(Tail(ps), ds)
       IN  rest \cup {<<Entry(Head(ps), d)>> \o r : d \in ds, r \in rest}

VARIABLES
  paths,       \* the universe of relative paths, in walk order
  files,       \* the local directory: path -> digest of the file, 0 if absent
  ignored,     \* the paths .comstarignore excludes
  failing,     \* the paths whose I/O (hash, download, upload, delete) fails
  localMf,     \* dir/comstar.json (Option<Manifest>)
  remoteMf,    \* the manifest behind the --manifest URL (Option<Manifest>)
  notFound,    \* what get_manifest yields for a manifest that is not there
  args,        \* argv: [cmd, force, force_validate, target, prefix]
  run,         \* number of the current invocation
  ret,         \* main: "idle", "running", "ok" or "err"
  trusted,     \* sync_manifest took its diff from dir/comstar.json, not from the files
  fn,          \* the pipeline function main is in
  opc,         \* the orchestrator's position in fn
  work,        \* the work set of fn (a sequence)
  i,           \* items the spawn loop has gone through
  j,           \* handles the join loop has awaited
  task,        \* task per item: "none", "running", "ok", "failed", "cancelled"
  out,         \* the value each task returned
  permits,     \* available permits of sem
  differences, \* Vec<ValidationDifference> of verify_manifest / diff of sync
  entries,     \* entries collected by generate_manifest
  started,     \* items whose FileStarted was sent
  done,        \* items whose FileDone was sent
  sent,        \* per item, its events in the order they entered the channel
  renderer,    \* event_output: "none", "running", "finished"
  uploads,     \* objects uploaded: [key, from, content]
  deleted,     \* object keys deleted
  wrote        \* per invocation, the local paths it wrote or removed

VARIABLES
  chan,        \* the events queued in the mpsc channel (followed in SpecChan)
  live,        \* SpecChan: stage -> the number of tasks whose next send is that stage's
  failed,      \* SpecChan: a task has returned an error
  nitems       \* SpecChan: the number of work items

env == <<paths, files, ignored, failing, localMf, remoteMf, notFound>>
mainv == <<args, run, ret, trusted>>
pipe == <<fn, opc, work, i, j, task, out, permits, differences, entries>>
evts == <<started, done, sent, renderer>>
effs == <<uploads, deleted, wrote>>
chv == <<chan, live, failed, nitems>>
vars == <<env, mainv, pipe, evts, effs, chv>>

\* ------------------------------------------------------------------ util.rs
\* What read_dir finds under dir, in walk order: the files, and comstar.json when
\* an earlier run wrote it.
DirListing ==
  LET is_file(p) == files[p] # 0
  IN  SelectSeq(paths, is_file) \o (IF localMf.present THEN <<COMSTAR>> ELSE <<>>)

\* A walker without the override: comstar.json is walked like any other file.
get_walker_no_override ==
  LET keep(p) == p \notin ignored
  IN  SelectSeq(DirListing, keep)

\* get_walker(dir) filtered by is_file: the custom ignore file .comstarignore and
\* the override "!comstar.json" (an ignore glob, matched on the file name).
get_walker ==
  LET keep(p) == p \notin ignored /\ file_name(p) # "comstar.json"
  IN  SelectSeq(DirListing, keep)

\* The content (digest) of the local file at relative path q; comstar.json's
\* content is no digest of 1..MaxDigest.
Content(q) ==
  IF q = COMSTAR THEN (IF localMf.present THEN MaxDigest + 1 ELSE 0)
  ELSE IF q \in DOMAIN files THEN files[q] ELSE 0

\* A hash that does not depend on the file.
get_file_hash_const(q) == 1

\* get_file_hash(path): the digest of the file's bytes.
get_file_hash(q) == Content(q)

\* ------------------------------------------------------------------ validate.rs
missing(e) ==
  [ty |-> "FileMissing", path |-> e.path, upstream |-> e.sha512, local |-> 0]

hash_mismatch(e, l) ==
  [ty |-> "HashMismatch", path |-> e.path, upstream |-> e.sha512, local |-> l]

unknown_file(p) ==
  [ty |-> "UnknownFile", path |-> p, upstream |-> 0, local |-> 0]

\* for (k, v) in authority_entries: hash_mismatch, missing or nothing.
RECURSIVE AuthorityDiffs(_, _)
AuthorityDiffs(auth, loc) ==
  IF auth = <<>> THEN <<>>
  ELSE LET v == Head(auth)
           d == IF v.path \in PathsOf(loc)
                THEN IF ShaOf(loc, v.path) # v.sha512
                     THEN <<hash_mismatch(v, ShaOf(loc, v.path))>>
                     ELSE <<>>
                ELSE <<missing(v)>>
       IN  d \o AuthorityDiffs(Tail(auth), loc)

\* for (k, v) in local_entries: unknown_file when the authority has no such key.
RECURSIVE UnknownDiffs(_, _)
UnknownDiffs(loc, auth) ==
  IF loc = <<>> THEN <<>>
  ELSE (IF Head(loc).path \notin PathsOf(auth)
        THEN <<unknown_file(Head(loc).path)>>
        ELSE <<>>) \o UnknownDiffs(Tail(loc), auth)

\* A diff that reports unknown files whatever the flag.
diff_manifests_forced(auth, loc, force) ==
  AuthorityDiffs(auth, loc) \o UnknownDiffs(loc, auth)

\* validate::diff_manifests on two manifests that were both found.
diff_manifests(auth, loc, force) ==
  AuthorityDiffs(auth, loc) \o (IF force THEN UnknownDiffs(loc, auth) ELSE <<>>)

\* A walk that reports every walked file.
WalkUnknown_all(walker, fnames) == [k \in 1..Len(walker) |-> unknown_file(walker[k])]

\* verify_manifest, force: the walked files whose absolute path is not in fnames
\* (the logical paths of the manifest's entries).
RECURSIVE WalkUnknown(_, _)
WalkUnknown(walker, fnames) ==
  IF walker = <<>> THEN <<>>
  ELSE LET path == to_logical_path(Head(walker))
       IN  (IF path \notin fnames
            THEN <<unknown_file(strip_prefix(path))>>
            ELSE <<>>) \o WalkUnknown(Tail(walker), fnames)

\* ------------------------------------------------------------------ push/gcs.rs
Update(p) == [op |-> "Update", path |-> p]

Delete(p) == [op |-> "Delete", path |-> p]

\* A diff that updates every local entry.
LocalUpdates_all(loc, rem) == [k \in 1..Len(loc) |-> Update(loc[k].path)]

\* for (k, v) in local_map: Update when the remote has no such key or another sha.
RECURSIVE LocalUpdates(_, _)
LocalUpdates(loc, rem) ==
  IF loc = <<>> THEN <<>>
  ELSE LET e == Head(loc)
           d == IF e.path \in PathsOf(rem)
                THEN IF ShaOf(rem, e.path) # e.sha512 THEN <<Update(e.path)>> ELSE <<>>
                ELSE <<Update(e.path)>>
       IN  d \o LocalUpdates(Tail(loc), rem)

\* A diff that deletes every remote entry.
RemoteDeletes_all(rem, loc) == [k \in 1..Len(rem) |-> Delete(rem[k].path)]

\* for k in remote_map.keys(): Delete when the local map has no such key.
RECURSIVE RemoteDeletes(_, _)
RemoteDeletes(rem, loc) ==
  IF rem = <<>> THEN <<>>
  ELSE (IF Head(rem).path \notin PathsOf(loc)
        THEN <<Delete(Head(rem).path)>>
        ELSE <<>>) \o RemoteDeletes(Tail(rem), loc)

\* gcs::diff_manifests(local, remote: Option<&Manifest>).
gcs_diff_manifests(loc, remote) ==
  IF remote.present
  THEN LocalUpdates(loc, remote.entries) \o RemoteDeletes(remote.entries, loc)
  ELSE [k \in 1..Len(loc) |-> Update(loc[k].path)]

\* ------------------------------------------------------------------ manifest.rs
\* The Err of a fetch, as its callers see it after `?`.
Err == [err |-> TRUE, present |-> FALSE, entries |-> <<>>]

\* get_manifest(url): get_manifest_http or get_manifest_file by scheme.  A manifest
\* that parses is returned; one that does not parse is an Err of serde.  For a
\* manifest that is not there the body in manifest.rs returns the Err of
\* File::open or of parsing the 404 body (Result<Manifest>), while every caller
\* takes a Result<Option<Manifest>> and handles None: notFound is either.
get_manifest(target) ==
  LET m == IF target = "local" THEN localMf ELSE remoteMf
  IN  IF m.malformed \/ (~m.present /\ notFound = "Err")
      THEN Err
      ELSE [err |-> FALSE, present |-> m.present, entries |-> m.entries]

\* write_manifest(manifest, dir), called by sync_manifest: dir/comstar.json holds
\* the manifest.
write_manifest(m) ==
  /\ localMf' = m
  /\ wrote' = [wrote EXCEPT ![run] = @ \cup {COMSTAR}]

\* main: OpenOptions (truncate, write, create) on dir/comstar.json and
\* serde_json::to_writer_pretty(writer, &manifest).
to_writer_pretty(m) ==
  /\ localMf' = Some(m)
  /\ wrote' = [wrote EXCEPT ![run] = @ \cup {COMSTAR}]

\* ------------------------------------------------------------------ the fan-out
\* An acquire that never waits.
acquire_owned_unbounded == TRUE

\* sem.clone().acquire_owned().await completes only while a permit is available.
acquire_owned == permits > 0

\* let (tx, rx) = channel(50); let sem = Semaphore::new(10); tokio::spawn(event_output);
\* let mut handles = Vec::new();
StartPipeline(f, w) ==
  /\ fn' = f
  /\ opc' = IF w = <<>> THEN "join" ELSE "loop"
  /\ work' = w
  /\ i' = 0
  /\ j' = 0
  /\ task' = [k \in 1..Len(w) |-> "none"]
  /\ out' = [k \in 1..Len(w) |-> <<>>]
  /\ permits' = W
  /\ started' = {}
  /\ done' = {}
  /\ sent' = [k \in 1..Len(w) |-> <<>>]
  /\ renderer' = "running"

NoPipeline ==
  UNCHANGED <<fn, opc, work, i, j, task, out, permits, started, done, sent, renderer>>

\* get_file_http: one FileProgress per chunk of the body, sent between the
\* task's FileStarted and its FileDone; the content numbered d is taken to arrive
\* in d chunks.  No other task sends FileProgress.
file_progress(k) ==
  IF fn = "sync_manifest" /\ work[k].ty # "UnknownFile"
  THEN [n \in 1..work[k].upstream |-> "FileProgress"]
  ELSE <<>>

\* A spawn whose future starts with its work, not with FileStarted.
SpawnTask_silent(k, sends) ==
  /\ permits' = permits - 1
  /\ task' = [task EXCEPT ![k] = "running"]
  /\ i' = k
  /\ opc' = IF k = Len(work) THEN "join" ELSE "loop"
  /\ UNCHANGED <<started, sent>>

\* One iteration of a spawn loop: the permit moves into the future, tokio::spawn
\* starts it, the handle is pushed.  sends: the task's first poll sends FileStarted.
SpawnTask(k, sends) ==
  /\ permits' = permits - 1
  /\ task' = [task EXCEPT ![k] = "running"]
  /\ i' = k
  /\ opc' = IF k = Len(work) THEN "join" ELSE "loop"
  /\ started' = IF sends THEN started \cup {k} ELSE started
  /\ sent' = IF sends THEN [sent EXCEPT ![k] = Append(@, "FileStarted")] ELSE sent

\* An end of task that gives the permit back only on the way to Ok.
EndTask_leaks_on_return(k, ok, value, sendsDone) ==
  /\ task' = [task EXCEPT ![k] = IF ok THEN "ok" ELSE "failed"]
  /\ out' = [out EXCEPT ![k] = value]
  /\ permits' = IF ok /\ value = <<>> THEN permits + 1 ELSE permits
  /\ done' = IF sendsDone THEN done \cup {k} ELSE done
  /\ sent' = [sent EXCEPT ![k] = @ \o (IF sendsDone THEN <<"FileDone">> ELSE <<>>)]

\* The end of a task's future: Ok(value) after FileDone was sent, or the early
\* return of `?` with no FileDone; the permit it owns is dropped either way.
EndTask(k, ok, value, sendsDone) ==
  /\ task' = [task EXCEPT ![k] = IF ok THEN "ok" ELSE "failed"]
  /\ out' = [out EXCEPT ![k] = value]
  /\ permits' = permits + 1
  /\ done' = IF sendsDone THEN done \cup {k} ELSE done
  /\ sent' = [sent EXCEPT ![k] = @ \o (IF ok THEN file_progress(k) ELSE <<>>)
                                   \o (IF sendsDone THEN <<"FileDone">> ELSE <<>>)]

\* for h in handles { h.await??; }: the next handle, in spawn order, has finished.
Joinable ==
  /\ ret = "running"
  /\ opc = "join"
  /\ j < Len(work)
  /\ task[j + 1] \in {"ok", "failed"}

\* tx.send(Event::close()).await?; h.await??: every handle was awaited.
Closable ==
  /\ ret = "running"
  /\ opc = "join"
  /\ j = Len(work)

\* ------------------------------------------------------------------ generate_manifest
\* main, Args::Generate and Args::Push: generate_manifest(url, dir) up to its loop:
\* the walker's files are collected and the renderer is spawned.
MainGenerate ==
  /\ ret = "idle"
  /\ args.cmd \in {"generate", "push"}
  /\ ret' = "running"
  /\ StartPipeline("generate_manifest", get_walker)
  /\ entries' = <<>>
  /\ UNCHANGED <<env, args, run, trusted, differences, effs>>
  /\ UNCHANGED chv

\* for dirent in dirents: acquire a permit, spawn the future; its first poll runs
\* hash_with_events up to the FileStarted it sends.
generate_manifest_spawn ==
  /\ ret = "running"
  /\ fn = "generate_manifest"
  /\ opc = "loop"
  /\ acquire_owned
  /\ SpawnTask(i + 1, TRUE)
  /\ UNCHANGED <<env, mainv, fn, work, j, out, differences, entries, done, renderer, effs>>
  /\ UNCHANGED chv

\* The rest of the future: get_file_hash, FileDone, drop(permit), Ok(ManifestEntry).
generate_manifest_task(k) ==
  /\ fn = "generate_manifest"
  /\ task[k] = "running"
  /\ LET c == work[k]
     IN  IF c \in failing
         THEN EndTask(k, FALSE, <<>>, FALSE)
         ELSE EndTask(k, TRUE, <<Entry(strip_prefix(to_logical_path(c)), get_file_hash(c))>>, TRUE)
  /\ UNCHANGED <<env, mainv, fn, opc, work, i, j, differences, entries, started, renderer, effs>>
  /\ UNCHANGED chv

\* A join loop that skips a failed handle instead of returning its error.
generate_manifest_join_lenient ==
  /\ fn = "generate_manifest"
  /\ Joinable
  /\ j' = j + 1
  /\ entries' = IF task[j + 1] = "ok" THEN Append(entries, out[j + 1][1]) ELSE entries
  /\ ret' = ret
  /\ UNCHANGED <<env, args, run, trusted, fn, opc, work, i, task, out, permits, differences, evts, effs>>
  /\ UNCHANGED chv

\* A join loop that puts each entry in front of the ones collected before it.
generate_manifest_join_prepend ==
  /\ fn = "generate_manifest"
  /\ Joinable
  /\ IF task[j + 1] = "ok"
     THEN /\ j' = j + 1
          /\ entries' = out[j + 1] \o entries
          /\ ret' = ret
     ELSE /\ ret' = "err"
          /\ UNCHANGED <<j, entries>>
  /\ UNCHANGED <<env, args, run, trusted, fn, opc, work, i, task, out, permits, differences, evts, effs>>
  /\ UNCHANGED chv

\* for handle in handles { let e = handle.await??; entries.push(e); }
generate_manifest_join ==
  /\ fn = "generate_manifest"
  /\ Joinable
  /\ IF task[j + 1] = "ok"
     THEN /\ j' = j + 1
          /\ entries' = Append(entries, out[j + 1][1])
          /\ ret' = ret
     ELSE /\ ret' = "err"
          /\ UNCHANGED <<j, entries>>
  /\ UNCHANGED <<env, args, run, trusted, fn, opc, work, i, task, out, permits, differences, evts, effs>>
  /\ UNCHANGED chv

\* CloseStream, the renderer ends, Ok(Manifest { entries }).
generate_manifest_close ==
  /\ fn = "generate_manifest"
  /\ Closable
  /\ renderer' = "finished"
  /\ opc' = "returned"
  /\ UNCHANGED <<env, mainv, fn, work, i, j, task, out, permits, differences, entries,
                 started, done, sent, effs>>
  /\ UNCHANGED chv

\* main, Args::Generate: comstar.json is opened (create, truncate) and written.
MainGenerateWrite ==
  /\ ret = "running"
  /\ args.cmd = "generate"
  /\ fn = "generate_manifest"
  /\ opc = "returned"
  /\ to_writer_pretty(entries)
  /\ ret' = "ok"
  /\ UNCHANGED <<paths, files, ignored, failing, remoteMf, notFound, args, run, trusted, pipe, evts,
                 uploads, deleted>>
  /\ UNCHANGED chv

\* ------------------------------------------------------------------ verify_manifest
\* verify_manifest(target, dir, force) up to its loop: the manifest must exist.
verify_manifest_begin ==
  LET manifest == get_manifest(args.target)
  IN  IF manifest.present
      THEN /\ ret' = "running"
           /\ StartPipeline("verify_manifest", manifest.entries)
           /\ differences' = <<>>
      ELSE /\ ret' = "err"
           /\ NoPipeline
           /\ UNCHANGED differences

\* main, Args::Validate.
MainValidate ==
  /\ ret = "idle"
  /\ args.cmd = "validate"
  /\ verify_manifest_begin
  /\ UNCHANGED <<env, args, run, trusted, entries, effs>>
  /\ UNCHANGED chv

\* for e in manifest.entries: the orchestrator itself sends FileStarted ...
verify_manifest_send ==
  /\ ret = "running"
  /\ fn = "verify_manifest"
  /\ opc = "loop"
  /\ started' = started \cup {i + 1}
  /\ sent' = [sent EXCEPT ![i + 1] = Append(@, "FileStarted")]
  /\ opc' = "acquire"
  /\ UNCHANGED <<env, mainv, fn, work, i, j, task, out, permits, differences, entries,
                 done, renderer, effs>>
  /\ UNCHANGED chv

\* ... and only then acquires the permit and spawns the task.
verify_manifest_spawn ==
  /\ ret = "running"
  /\ fn = "verify_manifest"
  /\ opc = "acquire"
  /\ acquire_owned
  /\ SpawnTask(i + 1, FALSE)
  /\ UNCHANGED <<env, mainv, fn, work, j, out, differences, entries, done, renderer, effs>>
  /\ UNCHANGED chv

\* The task: Missing when the file does not exist, the hash (which may fail with
\* no FileDone), HashMismatch when it differs, None otherwise.
verify_manifest_task(k) ==
  /\ fn = "verify_manifest"
  /\ task[k] = "running"
  /\ LET e == work[k]
         exists == Content(e.path) # 0
         sha512 == get_file_hash(e.path)
     IN  IF ~exists THEN EndTask(k, TRUE, <<missing(e)>>, TRUE)
         ELSE IF e.path \in failing THEN EndTask(k, FALSE, <<>>, FALSE)
         ELSE IF sha512 # e.sha512 THEN EndTask(k, TRUE, <<hash_mismatch(e, sha512)>>, TRUE)
         ELSE EndTask(k, TRUE, <<>>, TRUE)
  /\ UNCHANGED <<env, mainv, fn, opc, work, i, j, differences, entries, started, renderer, effs>>
  /\ UNCHANGED chv

\* for handle in handles { if let Some(d) = handle.await?? { differences.push(d) } }
verify_manifest_join ==
  /\ fn = "verify_manifest"
  /\ Joinable
  /\ IF task[j + 1] = "ok"
     THEN /\ j' = j + 1
          /\ differences' = differences \o out[j + 1]
          /\ ret' = ret
     ELSE /\ ret' = "err"
          /\ UNCHANGED <<j, differences>>
  /\ UNCHANGED <<env, args, run, trusted, fn, opc, work, i, task, out, permits, entries, evts, effs>>
  /\ UNCHANGED chv

\* CloseStream, the renderer ends.
verify_manifest_close ==
  /\ fn = "verify_manifest"
  /\ Closable
  /\ renderer' = "finished"
  /\ opc' = IF args.force THEN "walk" ELSE "returned"
  /\ UNCHANGED <<env, mainv, fn, work, i, j, task, out, permits, differences, entries,
                 started, done, sent, effs>>
  /\ UNCHANGED chv

\* if force: the second channel and renderer, the walk of dir, one unknown_file
\* per walked file that is not the logical path of an entry.
verify_manifest_walk ==
  /\ ret = "running"
  /\ fn = "verify_manifest"
  /\ opc = "walk"
  /\ LET fnames == {to_logical_path(e.path) : e \in Range(work)}
     IN  differences' = differences \o WalkUnknown(get_walker, fnames)
  /\ opc' = "returned"
  /\ UNCHANGED <<env, mainv, fn, work, i, j, task, out, permits, entries, evts, effs>>
  /\ UNCHANGED chv

\* main, Args::Validate: "All files validated." or the report and
\* bail!("Validation failed.").
MainValidateReport ==
  /\ ret = "running"
  /\ args.cmd = "validate"
  /\ fn = "verify_manifest"
  /\ opc = "returned"
  /\ ret' = IF Len(differences) = 0 THEN "ok" ELSE "err"
  /\ UNCHANGED <<env, args, run, trusted, pipe, evts, effs>>
  /\ UNCHANGED chv

\* ------------------------------------------------------------------ sync_manifest
\* sync_manifest without the return on an empty diff.
sync_manifest_apply_always(diff) ==
  /\ ret' = "running"
  /\ StartPipeline("sync_manifest", diff)

\* if diff.is_empty() { return Ok(()) }; otherwise the channel, the semaphore and
\* the renderer of the sync pipeline.
sync_manifest_apply(diff) ==
  IF diff = <<>>
  THEN /\ ret' = "ok"
       /\ NoPipeline
  ELSE /\ ret' = "running"
       /\ StartPipeline("sync_manifest", diff)

\* A sync that takes the manifest diff whenever dir/comstar.json exists.
trusts_local_manifest_despite_validate == localMf.present

\* Whether sync trusts dir/comstar.json: it exists, is a file, and --validate is off.
trusts_local_manifest == localMf.present /\ ~args.force_validate

\* main, Args::Sync: sync_manifest(target, dir, force, force_validate) up to the
\* first pipeline: the diff of the two manifests, or verify_manifest.
MainSync ==
  /\ ret = "idle"
  /\ args.cmd = "sync"
  /\ IF trusts_local_manifest
     THEN IF get_manifest(args.target).present
          THEN LET d == diff_manifests(get_manifest(args.target).entries,
                                       localMf.entries, args.force)
               IN  /\ differences' = d
                   /\ sync_manifest_apply(d)
          ELSE /\ ret' = "err"
               /\ NoPipeline
               /\ UNCHANGED differences
     ELSE verify_manifest_begin
  /\ trusted' = trusts_local_manifest
  /\ UNCHANGED <<env, args, run, entries, effs>>
  /\ UNCHANGED chv

\* verify_manifest returned its differences to sync_manifest.
sync_manifest_verified ==
  /\ ret = "running"
  /\ args.cmd = "sync"
  /\ fn = "verify_manifest"
  /\ opc = "returned"
  /\ sync_manifest_apply(differences)
  /\ UNCHANGED <<env, args, run, trusted, differences, entries, effs>>
  /\ UNCHANGED chv

\* for d in diff: acquire a permit, spawn the future; its first poll sends
\* FileStarted under the file name of d.path.
sync_manifest_spawn ==
  /\ ret = "running"
  /\ fn = "sync_manifest"
  /\ opc = "loop"
  /\ acquire_owned
  /\ SpawnTask(i + 1, TRUE)
  /\ UNCHANGED <<env, mainv, fn, work, j, out, differences, entries, done, renderer, effs>>
  /\ UNCHANGED chv

\* A download that creates the destination and writes nothing into it.
get_file_empty(d) ==
  /\ files' = [files EXCEPT ![d.path] = MaxDigest + 1]
  /\ wrote' = [wrote EXCEPT ![run] = @ \cup {d.path}]

\* get_file(source, sync_path): the file holds what the source serves, which is
\* the content the manifest entry was hashed from.
get_file(d) ==
  /\ files' = [files EXCEPT ![d.path] = d.upstream]
  /\ wrote' = [wrote EXCEPT ![run] = @ \cup {d.path}]

\* A delete that leaves the file where it is.
delete_file_noop(d) ==
  /\ UNCHANGED files
  /\ wrote' = [wrote EXCEPT ![run] = @ \cup {d.path}]

\* delete_file(sync_path): remove_file.
delete_file(d) ==
  /\ files' = [files EXCEPT ![d.path] = 0]
  /\ wrote' = [wrote EXCEPT ![run] = @ \cup {d.path}]

\* The rest of the future: the download or the delete, then FileDone and
\* drop(permit); a failing download or delete returns through `?`.
sync_manifest_task(k) ==
  /\ fn = "sync_manifest"
  /\ task[k] = "running"
  /\ LET d == work[k]
         fails == \/ d.path \in failing
                  \/ d.ty = "UnknownFile" /\ Content(d.path) = 0
     IN  IF fails
         THEN /\ EndTask(k, FALSE, <<>>, FALSE)
              /\ UNCHANGED <<files, wrote>>
         ELSE /\ EndTask(k, TRUE, <<>>, TRUE)
              /\ IF d.ty = "UnknownFile" THEN delete_file(d) ELSE get_file(d)
  /\ UNCHANGED <<paths, ignored, failing, localMf, remoteMf, notFound, mainv, fn, opc, work, i, j,
                 differences, entries, started, renderer, uploads, deleted>>
  /\ UNCHANGED chv

\* A join loop of sync that goes past a failed handle.
sync_manifest_join_lenient ==
  /\ fn = "sync_manifest"
  /\ Joinable
  /\ j' = j + 1
  /\ ret' = ret
  /\ UNCHANGED <<env, args, run, trusted, fn, opc, work, i, task, out, permits, differences,
                 entries, evts, effs>>
  /\ UNCHANGED chv

\* for h in handles { h.await??; }
sync_manifest_join ==
  /\ fn = "sync_manifest"
  /\ Joinable
  /\ IF task[j + 1] = "ok"
     THEN /\ j' = j + 1
          /\ ret' = ret
     ELSE /\ ret' = "err"
          /\ UNCHANGED j
  /\ UNCHANGED <<env, args, run, trusted, fn, opc, work, i, task, out, permits, differences,
                 entries, evts, effs>>
  /\ UNCHANGED chv

\* CloseStream, the renderer ends, the target manifest is fetched again and
\* written to dir.
sync_manifest_close ==
  /\ fn = "sync_manifest"
  /\ Closable
  /\ renderer' = "finished"
  /\ opc' = "returned"
  /\ IF get_manifest(args.target).present
     THEN /\ write_manifest(Some(get_manifest(args.target).entries))
          /\ ret' = "ok"
     ELSE /\ ret' = "err"
          /\ UNCHANGED <<localMf, wrote>>
  /\ UNCHANGED <<paths, files, ignored, failing, remoteMf, notFound, args, run, trusted, fn, work, i, j,
                 task, out, permits, differences, entries, started, done, sent, uploads, deleted>>
  /\ UNCHANGED chv

\* ------------------------------------------------------------------ push_dir
\* main, Args::Push after generate_manifest: comstar.json is written, the remote
\* manifest fetched; push_dir computes the diff, appends comstar.json to a
\* non-empty diff and spawns the renderer.
MainPushDir ==
  /\ ret = "running"
  /\ args.cmd = "push"
  /\ fn = "generate_manifest"
  /\ opc = "returned"
  /\ to_writer_pretty(entries)
  /\ LET remote_manifest == get_manifest(args.target)
         diffs == gcs_diff_manifests(entries, remote_manifest)
     IN  IF remote_manifest.err
         THEN /\ ret' = "err"
              /\ NoPipeline
         ELSE /\ ret' = ret
              /\ StartPipeline("push_dir",
                               IF diffs # <<>> THEN Append(diffs, Update(COMSTAR))
                               ELSE diffs)
  /\ UNCHANGED <<paths, files, ignored, failing, remoteMf, notFound, args, run, trusted,
                 differences, entries, uploads, deleted>>
  /\ UNCHANGED chv

\* for d in diffs: acquire a permit, spawn the future; its first poll sends
\* FileStarted under the object key.
push_dir_spawn ==
  /\ ret = "running"
  /\ fn = "push_dir"
  /\ opc = "loop"
  /\ acquire_owned
  /\ SpawnTask(i + 1, TRUE)
  /\ UNCHANGED <<env, mainv, fn, work, j, out, differences, entries, done, renderer, effs>>
  /\ UNCHANGED chv

\* upload_object(client, bucket, path, local_file): the object path holds the
\* content of local_file.
upload_object(path, local_file) ==
  uploads' = uploads \cup {[key |-> path, from |-> local_file, content |-> Content(local_file)]}

\* The rest of the future.  Update: path is the prefix joined with rel_path and
\* local_file is path.to_path(base); File::open fails when there is no such file.
\* Delete: delete_object(path).
push_dir_task(k) ==
  /\ fn = "push_dir"
  /\ task[k] = "running"
  /\ LET d == work[k]
         path == join(args.prefix, d.path)
         local_file == path
         fails == \/ d.path \in failing
                  \/ d.op = "Update" /\ Content(local_file) = 0
     IN  IF fails
         THEN /\ EndTask(k, FALSE, <<>>, FALSE)
              /\ UNCHANGED <<uploads, deleted>>
         ELSE /\ EndTask(k, TRUE, <<>>, TRUE)
              /\ IF d.op = "Update"
                 THEN upload_object(path, local_file) /\ UNCHANGED deleted
                 ELSE deleted' = deleted \cup {path} /\ UNCHANGED uploads
  /\ UNCHANGED <<env, mainv, fn, opc, work, i, j, differences, entries, started,
                 renderer, wrote>>
  /\ UNCHANGED chv

\* for h in handles { h.await??; }
push_dir_join ==
  /\ fn = "push_dir"
  /\ Joinable
  /\ IF task[j + 1] = "ok"
     THEN /\ j' = j + 1
          /\ ret' = ret
     ELSE /\ ret' = "err"
          /\ UNCHANGED j
  /\ UNCHANGED <<env, args, run, trusted, fn, opc, work, i, task, out, permits, differences,
                 entries, evts, effs>>
  /\ UNCHANGED chv

\* CloseStream, the renderer ends, Ok(()).
push_dir_close ==
  /\ fn = "push_dir"
  /\ Closable
  /\ renderer' = "finished"
  /\ opc' = "returned"
  /\ ret' = "ok"
  /\ UNCHANGED <<env, args, run, trusted, fn, work, i, j, task, out, permits, differences,
                 entries, started, done, sent, effs>>
  /\ UNCHANGED chv

\* ------------------------------------------------------------------ event names
\* The path of work item k: a walked file, a manifest entry's path, a difference's
\* path or a ManifestDiff's path.
ItemPath(k) == IF fn = "generate_manifest" THEN work[k] ELSE work[k].path

\* The name an item's events carry: the file name of its local path in
\* hash_with_events, verify_manifest and sync_manifest, the whole object key
\* (path.to_string()) in push_dir.
event_name(k) ==
  IF fn = "push_dir"
  THEN join(args.prefix, ItemPath(k))
  ELSE <<file_name(ItemPath(k))>>

\* ------------------------------------------------------------------ the process
Running == {k \in 1..Len(task) : task[k] = "running"}

\* main returned: #[tokio::main] drops the runtime, which drops every future that
\* has not finished (a detached task is cancelled where it is suspended) and with
\* it the permit the future owns.
RuntimeShutdown ==
  /\ ret \in {"ok", "err"}
  /\ Running # {}
  /\ task' = [k \in 1..Len(task) |-> IF task[k] = "running" THEN "cancelled" ELSE task[k]]
  /\ permits' = permits + Cardinality(Running)
  /\ UNCHANGED <<env, mainv, fn, opc, work, i, j, out, differences, entries,
                 evts, effs>>
  /\ UNCHANGED chv

\* The argv of the invocation that follows: the same sync again, or a validate of
\* the directory against the comstar.json that generate just wrote.
FollowUps ==
  IF ret = "ok" /\ args.cmd = "sync" THEN {args}
  ELSE IF ret = "ok" /\ args.cmd = "generate"
  THEN {[args EXCEPT !.cmd = "validate", !.force = f] : f \in BOOLEAN}
  ELSE {}

\* The process has exited and the program is run again.
Rerun ==
  /\ ret \in {"ok", "err"}
  /\ Running = {}
  /\ run < MaxRuns
  /\ args' \in FollowUps
  /\ run' = run + 1
  /\ ret' = "idle"
  /\ wrote' = Append(wrote, {})
  /\ trusted' = FALSE
  /\ fn' = "none"
  /\ opc' = "none"
  /\ work' = <<>>
  /\ i' = 0
  /\ j' = 0
  /\ task' = <<>>
  /\ out' = <<>>
  /\ permits' = W
  /\ differences' = <<>>
  /\ entries' = <<>>
  /\ started' = {}
  /\ done' = {}
  /\ sent' = <<>>
  /\ renderer' = "none"
  /\ UNCHANGED <<env, uploads, deleted>>
  /\ UNCHANGED chv

\* ------------------------------------------------------------------ the event channel
\* Spec and SpecFan follow every work item and leave the occupancy of the channel
\* out: a send never waits there.  SpecChan follows the occupancy.  Its work items
\* are alike, so it counts the tasks by the send they are at instead of following
\* each one, which lets the work set exceed the channel's capacity.

\* tokio::sync::mpsc::channel(50)
CAP == 50

\* The largest work set of SpecChan.
MaxN == 51

\* A task is counted under the event it sends next: FileStarted, then (a download)
\* FileProgress, then FileDone.
Stages == {"spawned", "started", "progress"}
NoTasks == [s \in Stages |-> 0]
Live == live["spawned"] + live["started"] + live["progress"]

\* What the steps of SpecChan leave alone.
itemv == <<env, args, run, trusted, fn, nitems, work, j, task, out, differences, entries,
           started, done, sent, effs>>

\* verify_manifest: tx.send(FileStarted).await by the orchestrator, before the
\* permit is acquired; it waits while the channel is full.
orch_send_started ==
  /\ ret = "running"
  /\ fn = "verify_manifest"
  /\ opc = "loop"
  /\ chan < CAP
  /\ chan' = chan + 1
  /\ opc' = "acquire"
  /\ UNCHANGED <<itemv, ret, i, permits, renderer, live, failed>>

\* sem.acquire_owned().await and tokio::spawn of the item's future.  In
\* verify_manifest the future has FileDone to send, in sync_manifest FileStarted.
orch_acquire ==
  /\ ret = "running"
  /\ opc = (IF fn = "verify_manifest" THEN "acquire" ELSE "loop")
  /\ acquire_owned
  /\ permits' = permits - 1
  /\ live' = [live EXCEPT ![IF fn = "verify_manifest" THEN "started" ELSE "spawned"] = @ + 1]
  /\ i' = i + 1
  /\ opc' = IF i + 1 = nitems THEN "join" ELSE "loop"
  /\ UNCHANGED <<itemv, ret, renderer, chan, failed>>

\* sync_manifest's future: t.send(FileStarted).await.
task_send_started ==
  /\ ret = "running"
  /\ live["spawned"] > 0
  /\ chan < CAP
  /\ chan' = chan + 1
  /\ live' = [live EXCEPT !["spawned"] = @ - 1, !["started"] = @ + 1]
  /\ UNCHANGED <<itemv, ret, opc, i, permits, renderer, failed>>

\* get_file_http: ch.send(FileProgress).await for the chunk of the body.
task_send_progress ==
  /\ ret = "running"
  /\ fn = "sync_manifest"
  /\ live["started"] > 0
  /\ chan < CAP
  /\ chan' = chan + 1
  /\ live' = [live EXCEPT !["started"] = @ - 1, !["progress"] = @ + 1]
  /\ UNCHANGED <<itemv, ret, opc, i, permits, renderer, failed>>

\* t.send(FileDone).await, then the future ends and its permit is dropped.
task_send_done ==
  /\ ret = "running"
  /\ chan < CAP
  /\ \E s \in {"started", "progress"} :
       /\ live[s] > 0
       /\ live' = [live EXCEPT ![s] = @ - 1]
  /\ chan' = chan + 1
  /\ permits' = permits + 1
  /\ UNCHANGED <<itemv, ret, opc, i, renderer, failed>>

\* The item's hash, download or delete fails: the future returns the error
\* through `?`, sends nothing more and drops its permit.
task_err ==
  /\ ret = "running"
  /\ \E s \in {"started", "progress"} :
       /\ live[s] > 0
       /\ live' = [live EXCEPT ![s] = @ - 1]
  /\ failed' = TRUE
  /\ permits' = permits + 1
  /\ UNCHANGED <<itemv, ret, opc, i, renderer, chan>>

\* for h in handles { h.await??; } when every future returned Ok.
orch_join_ok ==
  /\ ret = "running"
  /\ opc = "join"
  /\ Live = 0
  /\ ~failed
  /\ opc' = "close"
  /\ UNCHANGED <<itemv, ret, i, permits, renderer, chv>>

\* for h in handles { h.await??; } at a handle whose future returned an error:
\* the orchestrator returns it, whatever the later futures are doing.
orch_join_err ==
  /\ ret = "running"
  /\ opc = "join"
  /\ failed
  /\ ret' = "err"
  /\ opc' = "returned"
  /\ UNCHANGED <<itemv, i, permits, renderer, chv>>

\* tx.send(Event::close()).await
orch_send_close ==
  /\ ret = "running"
  /\ opc = "close"
  /\ chan < CAP
  /\ chan' = chan + 1
  /\ opc' = "await"
  /\ UNCHANGED <<itemv, ret, i, permits, renderer, live, failed>>

\* An event_output that receives nothing until the orchestrator awaits it.
event_output_recv_late ==
  /\ ret = "running"
  /\ renderer = "running"
  /\ opc = "await"
  /\ chan > 0
  /\ chan' = chan - 1
  /\ renderer' = IF chan = 1 THEN "finished" ELSE "running"
  /\ UNCHANGED <<itemv, ret, opc, i, permits, live, failed>>

\* event_output: ch.recv().await takes the oldest event; CloseStream, the last
\* one sent, ends the loop.
event_output_recv ==
  /\ ret = "running"
  /\ renderer = "running"
  /\ chan > 0
  /\ chan' = chan - 1
  /\ renderer' = IF opc = "await" /\ chan = 1 THEN "finished" ELSE "running"
  /\ UNCHANGED <<itemv, ret, opc, i, permits, live, failed>>

\* h.await??: the renderer has ended.
orch_await_renderer ==
  /\ ret = "running"
  /\ opc = "await"
  /\ renderer = "finished"
  /\ opc' = "returned"
  /\ ret' = "ok"
  /\ UNCHANGED <<itemv, i, permits, renderer, chv>>

\* ------------------------------------------------------------------ initial states
Argv(c, f, fv, t, pre) ==
  [cmd |-> c, force |-> f, force_validate |-> fv, target |-> t, prefix |-> pre]

\* A process that has not yet entered main.
InitProcess ==
  /\ run = 1
  /\ ret = "idle"
  /\ fn = "none"
  /\ opc = "none"
  /\ work = <<>>
  /\ i = 0
  /\ j = 0
  /\ task = <<>>
  /\ out = <<>>
  /\ permits = W
  /\ differences = <<>>
  /\ entries = <<>>
  /\ started = {}
  /\ done = {}
  /\ sent = <<>>
  /\ renderer = "none"
  /\ uploads = {}
  /\ deleted = {}
  /\ wrote = <<{}>>
  /\ trusted = FALSE
  /\ chan = 0
  /\ live = NoTasks
  /\ failed = FALSE
  /\ nitems = 0

OptManifests(ps) == {NoManifest} \cup {Some(m) : m \in ManifestsOver(ps, 1..MaxDigest)}

\* The remote manifest: none, one that does not parse, or any manifest over ps.
RemoteManifests(ps) == OptManifests(ps) \cup {Malformed}

\* The small tree in every state, with every command line.
InitSmall ==
  /\ paths = SmallPaths
  /\ notFound \in {"None", "Err"}
  /\ files \in [Range(SmallPaths) -> 0..MaxDigest]
  /\ ignored \in {{}, {<<"d", "a">>}}
  /\ failing \in {{}, {<<"a">>}}
  /\ \/ /\ args = Argv("generate", FALSE, FALSE, "local", <<>>)
        /\ localMf \in {NoManifest, Some(<<Entry(<<"a">>, 1)>>)}
        /\ remoteMf = NoManifest
     \/ /\ args \in {Argv("validate", f, FALSE, "remote", <<>>) : f \in BOOLEAN}
        /\ localMf \in {NoManifest, Some(<<Entry(<<"a">>, 1)>>)}
        /\ remoteMf \in RemoteManifests(SmallPaths)
     \/ /\ args \in {Argv("sync", f, fv, "remote", <<>>) : f \in BOOLEAN, fv \in BOOLEAN}
        /\ localMf \in OptManifests(SmallPaths)
        /\ remoteMf \in RemoteManifests(SmallPaths)
     \/ /\ args \in {Argv("push", FALSE, FALSE, "remote", pre) : pre \in {<<>>, <<"d">>}}
        /\ localMf \in {NoManifest, Some(<<Entry(<<"a">>, 1)>>)}
        /\ remoteMf \in RemoteManifests(SmallPaths)

Init == InitProcess /\ InitSmall

BigManifest == [k \in 1..MaxItems |-> Entry(BigPaths[k], 1)]

\* The large tree: more files than the semaphore has permits.
InitBig ==
  /\ paths = BigPaths
  /\ notFound = "None"
  /\ ignored = {}
  /\ failing \in {{}, {BigPaths[1]}}
  /\ \/ /\ args = Argv("generate", FALSE, FALSE, "local", <<>>)
        /\ files = [p \in Range(BigPaths) |-> 1]
        /\ localMf = NoManifest
        /\ remoteMf = NoManifest
     \/ /\ args = Argv("validate", TRUE, FALSE, "remote", <<>>)
        /\ files = [p \in Range(BigPaths) |-> 1]
        /\ localMf = NoManifest
        /\ remoteMf = Some(BigManifest)
     \/ /\ args = Argv("sync", FALSE, FALSE, "remote", <<>>)
        /\ files = [p \in Range(BigPaths) |-> 0]
        /\ localMf = NoManifest
        /\ remoteMf = Some(BigManifest)
     \/ /\ args = Argv("push", FALSE, FALSE, "remote", <<>>)
        /\ files = [p \in Range(BigPaths) |-> 1]
        /\ localMf = NoManifest
        /\ remoteMf = NoManifest

InitFan == InitProcess /\ InitBig

Next ==
  \/ MainGenerate
  \/ generate_manifest_spawn
  \/ \E k \in 1..Len(task) : generate_manifest_task(k)
  \/ generate_manifest_join
  \/ generate_manifest_close
  \/ MainGenerateWrite
  \/ MainValidate
  \/ verify_manifest_send
  \/ verify_manifest_spawn
  \/ \E k \in 1..Len(task) : verify_manifest_task(k)
  \/ verify_manifest_join
  \/ verify_manifest_close
  \/ verify_manifest_walk
  \/ MainValidateReport
  \/ MainSync
  \/ sync_manifest_verified
  \/ sync_manifest_spawn
  \/ \E k \in 1..Len(task) : sync_manifest_task(k)
  \/ sync_manifest_join
  \/ sync_manifest_close
  \/ MainPushDir
  \/ push_dir_spawn
  \/ \E k \in 1..Len(task) : push_dir_task(k)
  \/ push_dir_join
  \/ push_dir_close
  \/ RuntimeShutdown
  \/ Rerun

\* The steps of a pipeline as the channel sees them.
NextChan ==
  \/ orch_send_started
  \/ orch_acquire
  \/ task_send_started
  \/ task_send_progress
  \/ task_send_done
  \/ task_err
  \/ orch_join_ok
  \/ orch_join_err
  \/ orch_send_close
  \/ event_output_recv
  \/ orch_await_renderer

\* The small tree, every input.
Spec == Init /\ [][Next]_vars

\* The large tree, which fills the semaphore.
SpecFan == InitFan /\ [][Next]_vars

\* verify_manifest or sync_manifest has made the channel, spawned the renderer and
\* the semaphore, and stands before its loop over nitems items.
InitChan ==
  /\ paths = <<>>
  /\ files = <<>>
  /\ ignored = {}
  /\ failing = {}
  /\ localMf = NoManifest
  /\ remoteMf = NoManifest
  /\ notFound = "None"
  /\ \/ args = Argv("validate", FALSE, FALSE, "remote", <<>>) /\ fn = "verify_manifest"
     \/ args = Argv("sync", FALSE, FALSE, "remote", <<>>) /\ fn = "sync_manifest"
  /\ run = 1
  /\ ret = "running"
  /\ trusted = FALSE
  /\ opc = "loop"
  /\ work = <<>>
  /\ i = 0
  /\ j = 0
  /\ task = <<>>
  /\ out = <<>>
  /\ permits = W
  /\ differences = <<>>
  /\ entries = <<>>
  /\ started = {}
  /\ done = {}
  /\ sent = <<>>
  /\ renderer = "running"
  /\ uploads = {}
  /\ deleted = {}
  /\ wrote = <<{}>>
  /\ chan = 0
  /\ live = NoTasks
  /\ failed = FALSE
  /\ nitems \in {1, W + 1, MaxN}

\* The channel, the semaphore and the renderer under work sets up to MaxN items.
SpecChan == InitChan /\ [][NextChan]_vars

\* ------------------------------------------------------------------ properties
Ended(k) == task[k] \in {"ok", "failed"}

\* C1: in every pipeline, at every moment, at most 10 tasks hold a permit of the
\* semaphore, whatever the size of the work set and the interleaving.
C1_AtMostWTasksRunning == Cardinality(Running) <= W

\* C1 witness: ten tasks hold the ten permits while the spawn loop has an item left.
C1_SemaphoreFull ==
  /\ Cardinality(Running) = W
  /\ permits = 0
  /\ i < Len(work)
  /\ ret = "running"

\* C2: every item whose FileStarted was sent gets its FileDone when it completes,
\* also when its work (download, upload, delete, hash) fails.
C2_FileDoneOnEveryCompletion ==
  \A k \in 1..Len(task) : (k \in started /\ Ended(k)) => k \in done

\* C3: when a task fails the orchestrator joins every spawned task (each runs to
\* its end, none is cancelled or abandoned) before it returns the error.
C3_ErrorOnlyAfterJoiningAll ==
  (ret = "err" /\ \E k \in 1..Len(task) : task[k] = "failed")
    => \A k \in 1..Len(task) : Ended(k)

\* C4: in push_dir comstar.json is uploaded only after every other upload and
\* delete of the diff has completed successfully.
C4_ManifestUploadedLast ==
  fn = "push_dir" =>
    \A k \in 1..Len(work) :
      (work[k] = Update(COMSTAR) /\ task[k] = "ok")
        => \A m \in 1..Len(work) : task[m] = "ok"

\* C5 as stated: after sync returns Ok every entry of the target manifest is in dir
\* with the entry's digest, whatever dir held before.
C5_SyncedTreeMatchesAlways ==
  (args.cmd = "sync" /\ ret = "ok")
    => \A e \in Range(remoteMf.entries) : Content(e.path) = e.sha512

\* C5: after sync returns Ok, every entry the applied diff lists as missing or
\* mismatching is in dir with the entry's digest; and when the diff came from
\* re-hashing the files (no dir/comstar.json, or --validate), so is every entry
\* of the target manifest.
C5_SyncedTreeMatches ==
  (args.cmd = "sync" /\ ret = "ok") =>
    /\ \A k \in 1..Len(work) :
         (fn = "sync_manifest" /\ work[k].ty # "UnknownFile")
           => Content(work[k].path) = work[k].upstream
    /\ ~trusted => \A e \in Range(remoteMf.entries) : Content(e.path) = e.sha512

\* C5 witness: a sync that re-hashed the files found a changed one, replaced it
\* and returned Ok.
C5_ChangedFileReplaced ==
  /\ args.cmd = "sync"
  /\ ret = "ok"
  /\ ~trusted
  /\ fn = "sync_manifest"
  /\ \E k \in 1..Len(work) : work[k].ty = "HashMismatch" /\ task[k] = "ok"

\* C6: the second of two successive syncs with the same target, dir and flags,
\* the first having returned Ok, writes no file and deletes none.
C6_SecondSyncWritesNothing ==
  (args.cmd = "sync" /\ run > 1) => wrote[run] = {}

\* C6 witness: the first sync wrote files, the second has returned Ok.
C6_SecondSyncDone ==
  /\ args.cmd = "sync"
  /\ run = 2
  /\ ret = "ok"
  /\ \E p \in wrote[1] : p # COMSTAR

\* C7: validate of a directory against the manifest generate has just written
\* for it reports no difference and succeeds, with and without force.
C7_GenerateThenValidateClean ==
  (args.cmd = "validate" /\ run > 1) => (differences = <<>> /\ ret # "err")

\* C7 witness: a forced validate of a generated, non-empty manifest has returned Ok
\* after hashing every entry.
C7_ValidatedAfterGenerate ==
  /\ args.cmd = "validate"
  /\ run = 2
  /\ args.force
  /\ ret = "ok"
  /\ localMf.entries # <<>>
  /\ \A k \in 1..Len(task) : task[k] = "ok"

UnknownAt == {k \in 1..Len(differences) : differences[k].ty = "UnknownFile"}

\* C8: verify_manifest reports no Unknown difference without force, and with force
\* one Unknown difference for exactly the walked files whose path is not a path
\* of the manifest.
C8_UnknownExactlyUnderForce ==
  (fn = "verify_manifest" /\ opc = "returned") =>
    LET extras == {p \in Range(get_walker) : p \notin PathsOf(work)}
        reported == {differences[k].path : k \in UnknownAt}
    IN  /\ reported = (IF args.force THEN extras ELSE {})
        /\ Cardinality(UnknownAt) = Cardinality(reported)

\* C8 witness: a forced verify_manifest has returned with an Unknown difference
\* for an extra file while another walked file is an entry of the manifest.
C8_ExtraFileReported ==
  /\ fn = "verify_manifest"
  /\ opc = "returned"
  /\ args.force
  /\ UnknownAt # {}
  /\ \E p \in Range(get_walker) : p \in PathsOf(work)

ChangedPaths ==
  {e.path : e \in {x \in Range(entries) :
                     \/ x.path \notin PathsOf(remoteMf.entries)
                     \/ ShaOf(remoteMf.entries, x.path) # x.sha512}}

ContentKeys == {u.key : u \in uploads} \ {join(args.prefix, COMSTAR)}

\* C9: with a remote manifest, push uploads content only for local entries whose
\* path the remote manifest lacks or lists with another digest, never for an entry
\* with equal digest in both; a push that returns Ok has uploaded all of them.
C9_PushUploadsChangedOnly ==
  (args.cmd = "push" /\ fn = "push_dir" /\ remoteMf.present) =>
    /\ ContentKeys \subseteq {join(args.prefix, p) : p \in ChangedPaths}
    /\ ret = "ok" => ContentKeys = {join(args.prefix, p) : p \in ChangedPaths}

\* C9 witness: a push against a remote manifest returned Ok, having uploaded a
\* changed file and left an unchanged one alone.
C9_UnchangedFileSkipped ==
  /\ args.cmd = "push"
  /\ fn = "push_dir"
  /\ remoteMf.present
  /\ ret = "ok"
  /\ ContentKeys # {}
  /\ \E e \in Range(entries) : e.path \notin ChangedPaths

\* C10: a push that finds no remote manifest and returns Ok has uploaded every
\* entry of the local manifest and comstar.json, for every local tree.
C10_FirstPushUploadsAll ==
  (args.cmd = "push" /\ fn = "push_dir" /\ ~remoteMf.present /\ ret = "ok") =>
    /\ \A e \in Range(entries) : join(args.prefix, e.path) \in {u.key : u \in uploads}
    /\ join(args.prefix, COMSTAR) \in {u.key : u \in uploads}

RemoteOnlyKeys ==
  IF remoteMf.present
  THEN {join(args.prefix, p) : p \in PathsOf(remoteMf.entries) \ PathsOf(entries)}
  ELSE {}

\* C11: push deletes only objects whose path is in the remote manifest and not in
\* the local one, with no flag involved, and a push that returns Ok has deleted
\* all of them.
C11_PushDeletesRemoteOnly ==
  (args.cmd = "push" /\ fn = "push_dir") =>
    /\ deleted \subseteq RemoteOnlyKeys
    /\ ret = "ok" => deleted = RemoteOnlyKeys

\* C11 witness: a push returned Ok having deleted a remote-only object while
\* another remote entry is still in the local manifest.
C11_RemoteOnlyDeleted ==
  /\ args.cmd = "push"
  /\ fn = "push_dir"
  /\ ret = "ok"
  /\ deleted # {}
  /\ \E p \in PathsOf(remoteMf.entries) : p \in PathsOf(entries)

DiffSet == {differences[k] : k \in 1..Len(differences)}

\* C12: validate::diff_manifests(authority, comparison, force) is Missing for each
\* path only in authority, HashMismatch with the comparison digest for each path
\* in both with different digests, nothing for equal digests, Unknown for each
\* path only in comparison exactly when force is set; no path occurs twice.
C12_DiffManifestsExact ==
  (args.cmd = "sync" /\ trusted /\ opc # "returned" /\ remoteMf.present) =>
    LET auth == Range(remoteMf.entries)
        loc == localMf.entries
        only_auth == {e \in auth : e.path \notin PathsOf(loc)}
        differ == {e \in auth : e.path \in PathsOf(loc) /\ ShaOf(loc, e.path) # e.sha512}
        only_loc == PathsOf(loc) \ PathsOf(remoteMf.entries)
    IN  /\ DiffSet =
             {[ty |-> "FileMissing", path |-> e.path, upstream |-> e.sha512, local |-> 0]
                : e \in only_auth}
             \cup
             {[ty |-> "HashMismatch", path |-> e.path, upstream |-> e.sha512,
               local |-> ShaOf(loc, e.path)] : e \in differ}
             \cup
             (IF args.force
              THEN {[ty |-> "UnknownFile", path |-> p, upstream |-> 0, local |-> 0]
                      : p \in only_loc}
              ELSE {})
        /\ Cardinality({d.path : d \in DiffSet}) = Len(differences)

\* C12 witness: a forced sync diffed two manifests into a HashMismatch and an Unknown.
C12_MismatchAndUnknown ==
  /\ args.cmd = "sync"
  /\ trusted
  /\ opc # "returned"
  /\ args.force
  /\ \E d \in DiffSet : d.ty = "HashMismatch"
  /\ \E d \in DiffSet : d.ty = "UnknownFile"

EntryDiffs == {d \in DiffSet : d.ty # "UnknownFile"}

\* C13: when verify_manifest returns, each manifest entry has yielded Missing if
\* its file does not exist, HashMismatch with the local digest if the digests
\* differ, and nothing otherwise, in whatever order the tasks ended.
C13_VerifyPerEntry ==
  (fn = "verify_manifest" /\ opc \in {"walk", "returned"}) =>
    /\ EntryDiffs =
         {[ty |-> "FileMissing", path |-> e.path, upstream |-> e.sha512, local |-> 0]
            : e \in {x \in Range(work) : Content(x.path) = 0}}
         \cup
         {[ty |-> "HashMismatch", path |-> e.path, upstream |-> e.sha512,
           local |-> Content(e.path)]
            : e \in {x \in Range(work) : Content(x.path) \notin {0, x.sha512}}}
    /\ \A k, m \in 1..Len(differences) :
         (differences[k].path = differences[m].path /\ differences[k].ty # "UnknownFile"
            /\ differences[m].ty # "UnknownFile") => k = m

\* C13 witness: verify_manifest returned a Missing for one entry and a
\* HashMismatch for another.
C13_MissingAndMismatch ==
  /\ fn = "verify_manifest"
  /\ opc \in {"walk", "returned"}
  /\ \E d \in DiffSet : d.ty = "FileMissing"
  /\ \E d \in DiffSet : d.ty = "HashMismatch"

C15_ManifestExcludesItself ==
  (fn = "generate_manifest" /\ opc = "returned")
    => \A e \in Range(entries) : file_name(e.path) # "comstar.json"

\* C15 witness: generate_manifest returned a non-empty manifest for a directory
\* that holds an earlier comstar.json.
C15_GeneratedOverOldManifest ==
  /\ fn = "generate_manifest"
  /\ opc = "returned"
  /\ run = 1
  /\ ret = "running"
  /\ localMf.present
  /\ entries # <<>>

RemoteMissing == ~remoteMf.present /\ ~remoteMf.malformed

FirstPush == Append([k \in 1..Len(entries) |-> Update(entries[k].path)], Update(COMSTAR))

\* C16: fetching a manifest that is not there yields absent, not an error: push,
\* once past the fetch, runs push_dir as a first push; sync and validate fail
\* before doing anything.  A malformed manifest is an error for all three.
C16_MissingManifestIsAbsent ==
  /\ (args.cmd = "push" /\ RemoteMissing /\ COMSTAR \in wrote[run] /\ entries # <<>>)
       => (fn = "push_dir" /\ work = FirstPush)
  /\ (args.cmd \in {"sync", "validate"} /\ args.target = "remote" /\ RemoteMissing
        /\ ret # "idle")
       => (ret = "err" /\ fn = "none" /\ wrote[run] = {})
  /\ (remoteMf.malformed /\ args.target = "remote" /\ ret \notin {"idle", "running"})
       => (ret = "err" /\ fn # "push_dir")

\* C16 under the reading of get_manifest its callers are written for
\* (Result<Option<Manifest>>): absent starts a first push and is fatal for sync
\* and validate; a malformed manifest is an error.
C16_AbsentHandledByCallers ==
  notFound = "None" => C16_MissingManifestIsAbsent

\* A first push is running: no remote manifest, every entry an Update.
C16_FirstPushStarted ==
  /\ args.cmd = "push"
  /\ RemoteMissing
  /\ fn = "push_dir"
  /\ work = FirstPush
  /\ entries # <<>>

\* C17: in the generate command dir/comstar.json changes only in a step taken
\* after generate_manifest returned with every file hashed successfully; a run in
\* which a hash failed leaves the earlier comstar.json as it was.
C17_ManifestWrittenAfterAllHashed ==
  [][(args.cmd = "generate" /\ (localMf' # localMf \/ wrote'[run] # wrote[run]))
       => /\ fn = "generate_manifest"
          /\ opc = "returned"
          /\ Len(entries) = Len(work)
          /\ \A k \in 1..Len(task) : task[k] = "ok"]_vars

\* C17 witness: generate ended with an error after a hash failed, and the earlier
\* comstar.json is still in dir, unwritten.
C17_HashFailedManifestKept ==
  /\ args.cmd = "generate"
  /\ ret = "err"
  /\ \E k \in 1..Len(task) : task[k] = "failed"
  /\ localMf = Some(<<Entry(<<"a">>, 1)>>)
  /\ wrote[run] = {}

\* Started, Progress*, Done, or a prefix of it.
InOrder(evs) ==
  evs # <<>> =>
    /\ evs[1] = "FileStarted"
    /\ \A n \in 2..Len(evs) :
         \/ evs[n] = "FileProgress"
         \/ evs[n] = "FileDone" /\ n = Len(evs)

\* C18: the events of each work item enter the channel, and so reach the
\* renderer, as FileStarted, then FileProgress zero or more times, then FileDone,
\* however the tasks interleave.
C18_EventsInOrder ==
  \A k \in 1..Len(sent) : InOrder(sent[k])

\* C18 witness: one download has sent FileStarted, two FileProgress and FileDone
\* while another item of the same run has only sent FileStarted.
C18_ProgressBetween ==
  /\ fn = "sync_manifest"
  /\ \E k \in 1..Len(sent) :
       sent[k] = <<"FileStarted", "FileProgress", "FileProgress", "FileDone">>
  /\ \E k \in 1..Len(sent) : sent[k] = <<"FileStarted">>

\* C19: a pipeline run that spawned the renderer has sent CloseStream and awaited
\* the renderer by the time the orchestrator returns, whether its tasks
\* succeeded or failed.
C19_RendererClosedBeforeReturn ==
  (ret \in {"ok", "err"} /\ renderer # "none") => renderer = "finished"

\* C20: a permit is out exactly while its task runs: each task gives it back when
\* it ends, by Ok, by an early return or by an error, so when every task has
\* ended all W permits are available.
C20_PermitsReturned ==
  /\ permits = W - Cardinality(Running)
  /\ (\A k \in 1..Len(task) : Ended(k)) => permits = W

\* C20 witness: in verify_manifest one task returned Missing early, another
\* returned the error of its hash, none is left running and all permits are back.
C20_AllBackAfterEarlyReturns ==
  /\ fn = "verify_manifest"
  /\ \E k \in 1..Len(task) : task[k] = "failed"
  /\ \E k \in 1..Len(task) : out[k] # <<>> /\ out[k][1].ty = "FileMissing"
  /\ \A k \in 1..Len(task) : Ended(k)
  /\ permits = W

InFlight == started \ done

\* C21: within one pipeline run no two distinct work items are in flight under the
\* same event name, also when files in different directories have equal names.
C21_NamesInFlightDistinct ==
  \A k, m \in InFlight : k # m => event_name(k) # event_name(m)

\* C22: an item's FileStarted is sent only after its permit was acquired and its
\* task spawned, so at most W items have a FileStarted and no FileDone yet.
C22_StartedOnlyWithPermit ==
  /\ \A k \in started : task[k] # "none"
  /\ Cardinality(InFlight) <= W

\* C23: generate_manifest returns one entry per walked file, no two with the same
\* path, in the order the walker produced the files, whatever the order in which
\* the hashing tasks completed; while it joins, the entries are that list's prefix.
C23_EntriesInWalkOrder ==
  fn = "generate_manifest" =>
    /\ j <= Len(get_walker)
    /\ entries = [k \in 1..j |-> Entry(get_walker[k], Content(get_walker[k]))]
    /\ \A k, m \in 1..Len(entries) : k # m => entries[k].path # entries[m].path
    /\ opc = "returned" => Len(entries) = Len(get_walker)

\* generate_manifest returned a manifest of two files.
C23_TwoFilesListed ==
  /\ fn = "generate_manifest"
  /\ opc = "returned"
  /\ Len(entries) = 2
  /\ entries[1].sha512 # entries[2].sha512

\* The Missing and HashMismatch differences of the manifest entries es against the
\* files on disk.
HashedDiffs(es) ==
  {[ty |-> "FileMissing", path |-> e.path, upstream |-> e.sha512, local |-> 0]
     : e \in {x \in Range(es) : Content(x.path) = 0}}
  \cup
  {[ty |-> "HashMismatch", path |-> e.path, upstream |-> e.sha512, local |-> Content(e.path)]
     : e \in {x \in Range(es) : Content(x.path) \notin {0, x.sha512}}}

\* C24: sync takes the diff of the two manifests only when dir/comstar.json exists
\* and --validate is off; with --validate, or without dir/comstar.json, it runs
\* verify_manifest and applies the diff that came from hashing the files, whatever
\* dir/comstar.json says.
C24_FastPathOnlyWhenTrusted ==
  [][/\ (args.cmd = "sync" /\ ret = "idle" /\ ret' # "idle") =>
          IF localMf.present /\ ~args.force_validate
          THEN /\ fn' # "verify_manifest"
               /\ ret' = "running" =>
                    work' = diff_manifests(remoteMf.entries, localMf.entries, args.force)
          ELSE fn' = "verify_manifest" \/ ret' = "err"
     /\ (args.cmd = "sync" /\ fn = "verify_manifest" /\ ret = "running"
           /\ (fn' = "sync_manifest" \/ ret' = "ok")) =>
          /\ opc = "returned"
          /\ IF differences = <<>> THEN ret' = "ok" ELSE work' = differences
          /\ {d \in Range(differences) : d.ty # "UnknownFile"} = HashedDiffs(remoteMf.entries)
    ]_vars

\* C24 witness: a sync with --validate over a directory that has a comstar.json
\* applies a diff it got from verify_manifest.
C24_ValidatedDespiteLocalManifest ==
  /\ args.cmd = "sync"
  /\ args.force_validate
  /\ localMf.present
  /\ ~trusted
  /\ fn = "sync_manifest"
  /\ work = differences
  /\ run = 1

\* C25: without --force a sync removes no local file: on the manifest-diff path
\* and on the re-hash path alike, the diff it applies holds no Unknown difference
\* and no step of the run turns an existing file into a missing one.
C25_NoDeleteWithoutForce ==
  [][(args.cmd = "sync" /\ ~args.force) =>
       /\ \A p \in DOMAIN files : files[p] # 0 => files'[p] # 0
       /\ fn' = "sync_manifest" =>
            \A k \in 1..Len(work') : work'[k].ty # "UnknownFile"
       /\ \A k \in 1..Len(differences') : differences'[k].ty # "UnknownFile"
    ]_vars

\* C25 witness: an unforced sync transferred a file and returned Ok while a file
\* that the target manifest does not list is still in dir.
C25_ExtraFileKept ==
  /\ args.cmd = "sync"
  /\ ~args.force
  /\ ret = "ok"
  /\ fn = "sync_manifest"
  /\ \E k \in 1..Len(work) : task[k] = "ok"
  /\ \E p \in Range(get_walker) : p \notin PathsOf(remoteMf.entries)

\* The differences a sync started in the current state would compute: the diff of
\* the two manifests when it trusts dir/comstar.json, the hashed differences and,
\* under force, the unlisted walked files otherwise.
Recomputed ==
  IF trusts_local_manifest
  THEN Range(diff_manifests(remoteMf.entries, localMf.entries, args.force))
  ELSE HashedDiffs(remoteMf.entries)
       \cup (IF args.force
             THEN {unknown_file(p) : p \in Range(get_walker) \ PathsOf(remoteMf.entries)}
             ELSE {})

\* C26: a sync rewrites dir/comstar.json only in the step that follows the join of
\* all its work items, every one of them successful, and ends the renderer; a sync
\* in which an item failed leaves comstar.json as it was, and every item it did not
\* complete is among the differences a later sync computes.
C26_ManifestKeptOnFailure ==
  [][args.cmd = "sync" =>
       /\ (localMf' # localMf \/ COMSTAR \in wrote'[run] \ wrote[run]) =>
            /\ fn = "sync_manifest"
            /\ j = Len(work)
            /\ \A k \in 1..Len(work) : task[k] = "ok"
            /\ renderer' = "finished"
       /\ (fn' = "sync_manifest" /\ ret' = "err" /\ run' = run) =>
            /\ COMSTAR \notin wrote'[run]
            /\ \A k \in 1..Len(work') : task'[k] # "ok" => work'[k] \in Recomputed'
    ]_vars

\* C26 witness: a sync returned an error after one item was transferred and another
\* failed, and dir/comstar.json was not written.
C26_FailedSyncKeptManifest ==
  /\ args.cmd = "sync"
  /\ ret = "err"
  /\ fn = "sync_manifest"
  /\ \E k \in 1..Len(work) : task[k] = "failed"
  /\ \E k \in 1..Len(work) : task[k] = "ok"
  /\ COMSTAR \notin wrote[run]

\* C28: every object push uploads under the key prefix/p holds the content of the
\* local file dir/p: the bucket prefix is part of the key, not of the file read.
C28_PrefixOnlyInKey ==
  \A u \in uploads :
    /\ u.key = join(args.prefix, u.from)
    /\ \A p \in Range(SmallPaths) :
         u.key = join(args.prefix, p) => u.content = Content(p)

\* What is left to do, as a number every step of SpecChan lowers: the sends and
\* receives still ahead of the orchestrator, of each item and of the renderer.
Measure ==
  (IF opc = "returned" THEN 0
   ELSE IF opc = "await" THEN 1
   ELSE IF opc = "close" THEN 3
   ELSE 4)
  + 9 * (nitems - i) - (IF opc = "acquire" THEN 2 ELSE 0)
  + 6 * live["spawned"] + 4 * live["started"] + 2 * live["progress"]
  + chan

\* Some party of the pipeline can take a step: the orchestrator (the error return
\* of the join loop counted only once no task is left), a task or the renderer.
CanStep ==
  \/ ENABLED orch_send_started
  \/ ENABLED orch_acquire
  \/ ENABLED orch_join_ok
  \/ ENABLED orch_send_close
  \/ ENABLED orch_await_renderer
  \/ ENABLED orch_join_err /\ Live = 0
  \/ ENABLED task_send_started
  \/ ENABLED task_send_progress
  \/ ENABLED task_send_done
  \/ ENABLED task_err
  \/ ENABLED event_output_recv

\* C27: with a channel of 50 events, 10 permits and one renderer, a pipeline that
\* has not returned always has a party that can step, for work sets up to MaxN
\* items (more than the channel holds) and with failing tasks; and every step
\* lowers a natural number, so a run in which the parties keep being scheduled
\* ends.
C27_NoDeadlock ==
  /\ [](ret = "running" => CanStep)
  /\ [][Measure' < Measure /\ Measure' >= 0]_vars

\* C27 witness: the channel is full while verify_manifest's orchestrator stands at
\* the send for an item past the fiftieth, all permits are taken and a task has
\* failed.
C27_ChannelFull ==
  /\ fn = "verify_manifest"
  /\ opc = "loop"
  /\ chan = CAP
  /\ permits = 0
  /\ i >= CAP
  /\ failed

====
